---- MODULE Spec2Model ----
(***************************************************************************)
(* Model of the ObjectHandler reconciler of template-controller            *)
(* (controllers/status/objecthandler_controller.go): the reconcile pass    *)
(* (Reconcile, doReconcile), the dynamic watch registry (addWatchForKind)  *)
(* and the mapping function the registered watch runs on a notification.   *)
(*                                                                         *)
(* One reconcile worker per instance: the work queue never runs two passes *)
(* of one instance at once, passes of different instances interleave.      *)
(***************************************************************************)
EXTENDS Naturals, Sequences, FiniteSets, TLC

\* ------------------------------------------------------------------ bounds
\* How often controller.Watch may fail in one run.
MaxWatchFailures == 1
\* How often the spec of an instance is edited from outside in one run.
MaxSpecUpdates == 1
\* How many instances are deleted in one run.
MaxDeletes == 1

\* --------------------------------------------------------------- universe
Instances == {"i1", "i2", "i3"}
\* The instances a run starts with: one instance with a long handler list, or
\* several instances with an empty one whose passes interleave at the registry.
Populations == {{"i1"}, {"i2", "i3"}}
Kinds == {"K1", "K2"}
Nil == "nil"
NoHolder == "none"

\* Handler specifications: a field that is not set is Nil.
CommentSpec == [pullRequestComment |-> "comment", pullRequestApprove |-> Nil]
ApproveSpec == [pullRequestComment |-> Nil, pullRequestApprove |-> "approve"]
MergedSpec == [pullRequestComment |-> "comment-merged", pullRequestApprove |-> Nil]
BothSpec == [pullRequestComment |-> "comment", pullRequestApprove |-> "approve"]
EmptySpec == [pullRequestComment |-> Nil, pullRequestApprove |-> Nil]
\* A comment handler whose configuration names a secret that does not exist.
UnresolvedSpec == [pullRequestComment |-> "comment-no-secret", pullRequestApprove |-> Nil]

\* kubebuilder default of spec.interval, in seconds.
DefaultInterval == 30
ShortInterval == 10

\* The handler lists an instance is created with (the first) or edited to.
InitialHandlers(i) ==
    IF i = "i1" THEN <<CommentSpec, ApproveSpec, MergedSpec>> ELSE <<>>

HandlerLists(i) ==
    IF i = "i1"
    THEN { InitialHandlers(i),
           <<CommentSpec, EmptySpec>>,
           <<ApproveSpec, UnresolvedSpec>>,
           <<BothSpec>>,
           <<CommentSpec, CommentSpec>> }
    ELSE { InitialHandlers(i) }

\* The specs an instance is created with.
InitialSpecs(i) ==
    { [forObject |-> [kind |-> k],
       handlers |-> InitialHandlers(i),
       interval |-> IF i = "i1" THEN ShortInterval ELSE DefaultInterval] :
        k \in (IF i = "i3" THEN Kinds ELSE {"K1"}) }


\* ----------------------------------------------------------------- errors
\* A Go error value: nil, a plain error, or a *multierror.Error with its list.
NoError == [kind |-> "nil", msgs |-> <<>>]
PlainError(m) == [kind |-> "error", msgs |-> <<m>>]
IsError(e) == e.kind # "nil"

\* multierror.Append(errs, err) on the list of errors collected so far.
MultiAppend(list, m) == Append(list, m)

\* ErrorOrNil that drops the errors collected.
ErrorOrNilDropsErrors(list) == NoError

\* (*multierror.Error).ErrorOrNil(): nil for a nil receiver.
ErrorOrNil(list) ==
    IF Len(list) = 0 THEN NoError ELSE [kind |-> "multierror", msgs |-> list]

ErrInstanceNotFound == PlainError("objecthandler not found")
ErrTargetNotFound == PlainError("target not found")
ErrWatch == PlainError("watch failed")
ErrNoReporter == PlainError("no reporter specified")
ErrBuild == PlainError("build reporter failed")
ErrPatch == PlainError("patch failed")
ErrList == PlainError("list failed")

\* ----------------------------------------------------------------- status
NoCondition == [status |-> "Unknown", reason |-> "", message |-> NoError]
EmptyStatus == [conditions |-> NoCondition, handlerStatus |-> <<>>]
NoObject == [spec |-> [forObject |-> [kind |-> Nil], handlers |-> <<>>, interval |-> 0],
             status |-> EmptyStatus]
NoResult == [err |-> NoError, requeueAfter |-> 0, patched |-> FALSE]

\* No pass of Reconcile was persisted yet.
NoPass == [ran |-> FALSE, spec |-> NoObject.spec, invoked |-> <<>>, err |-> NoError]

\* HandlerSpec.BuildKey(): derived from the content of the specification.
BuildKey(spec) == <<spec.pullRequestComment, spec.pullRequestApprove>>

VARIABLES
    exists,            \* exists[i]: the instance is in the object repository
    stored,            \* stored[i]: the instance as the repository holds it
    targets,           \* the kinds whose target object exists
    watchedKinds,      \* r.watchedKinds: a Go map, a function on the keys present
    mutex,             \* r.mutex: the worker holding it, or NoHolder
    watchCalls,        \* controller.Watch calls made, per kind
    subscriptions,     \* controller.Watch calls that registered a watch, per kind
    watchFailures,     \* controller.Watch calls that failed so far
    specUpdates,       \* edits of a spec so far
    queue,             \* the work queue: instances with a pending request
    pc,                \* pc[i]: where worker i is in Reconcile
    sr,                \* sr[i]: the worker's copy of the instance
    patchBase,         \* patchBase[i]: the status snapshot client.MergeFrom took
    idx,               \* idx[i]: position in spec.handlers of the loop
    errs,              \* errs[i]: the multierror list
    existingStatuses,  \* existingStatuses[i]: the keys visited in this pass
    err,               \* err[i]: what doReconcile returned
    invoked,           \* invoked[i]: the Handle calls of this pass, each with its outcome
    result,            \* result[i]: what the last Reconcile returned
    listErr,           \* what the List call of the map function's last run returned
    lastPass           \* lastPass[i]: what the last pass that was persisted read, did and returned

vars == <<exists, stored, targets, watchedKinds, mutex, watchCalls, subscriptions,
          watchFailures, specUpdates, queue, pc, sr, patchBase, idx, errs,
          existingStatuses, err, invoked, result, listErr, lastPass>>

repoVars == <<exists, stored, targets, specUpdates>>
registryVars == <<watchedKinds, mutex, watchCalls, subscriptions, watchFailures>>
loopVars == <<idx, errs, existingStatuses>>

Init ==
    /\ \E pop \in Populations :
          /\ exists = [i \in Instances |-> i \in pop]
          /\ queue = pop
          /\ stored \in { f \in [Instances -> {NoObject} \cup
                                    [spec : UNION {InitialSpecs(i) : i \in pop},
                                     status : {EmptyStatus}]] :
                            \A i \in Instances :
                               IF i \in pop THEN f[i].spec \in InitialSpecs(i)
                                            ELSE f[i] = NoObject }
    /\ targets = {}
    /\ watchedKinds = << >>
    /\ mutex = NoHolder
    /\ watchCalls = [k \in Kinds |-> 0]
    /\ subscriptions = [k \in Kinds |-> 0]
    /\ watchFailures = 0
    /\ specUpdates = 0
    /\ pc = [i \in Instances |-> "idle"]
    /\ sr = [i \in Instances |-> NoObject]
    /\ patchBase = [i \in Instances |-> EmptyStatus]
    /\ idx = [i \in Instances |-> 0]
    /\ errs = [i \in Instances |-> <<>>]
    /\ existingStatuses = [i \in Instances |-> {}]
    /\ err = [i \in Instances |-> NoError]
    /\ invoked = [i \in Instances |-> <<>>]
    /\ result = [i \in Instances |-> NoResult]
    /\ listErr = NoError
    /\ lastPass = [i \in Instances |-> NoPass]

\* ------------------------------------------------------ repository, helpers
\* IsWatched without the lookup: no kind counts as watched.
IsWatchedNever(m, k) == FALSE

\* The value of map m at key k with Go's zero value for a missing key:
\* "x, ok := m[k]; ok && x".
IsWatched(m, k) == k \in DOMAIN m /\ m[k]

\* m[k] = v on a Go map.
MapPut(m, k, v) == [x \in (DOMAIN m) \cup {k} |-> IF x = k THEN v ELSE m[x]]

\* sr.Spec.ForObject.GroupVersionKind()
GroupVersionKind(ref) == ref.kind

\* FindStatus that never finds a record.
FindStatusNever(list, key) == 0

\* The position of the first record with the key, 0 when there is none.
FindStatus(list, key) ==
    IF \E n \in 1..Len(list) : list[n].key = key
    THEN CHOOSE n \in 1..Len(list) :
            /\ list[n].key = key
            /\ \A m \in 1..(n - 1) : list[m].key # key
    ELSE 0

\* PruneStatuses that drops the first record whatever its key.
PruneStatusesDropsFirst(old, visited) == IF Len(old) = 0 THEN <<>> ELSE Tail(old)

\* PruneStatuses that returns the records kept in reverse order.
RECURSIVE PruneStatusesReversed(_, _)
PruneStatusesReversed(old, visited) ==
    IF Len(old) = 0 THEN <<>>
    ELSE IF Head(old).key \in visited
         THEN PruneStatusesReversed(Tail(old), visited) \o <<Head(old)>>
         ELSE PruneStatusesReversed(Tail(old), visited)

\* PruneStatuses that drops nothing.
PruneStatusesKeepAll(old, visited) == old

\* The records of old whose key was visited, in their order.
RECURSIVE PruneStatuses(_, _)
PruneStatuses(old, visited) ==
    IF Len(old) = 0 THEN <<>>
    ELSE IF Head(old).key \in visited
         THEN <<Head(old)>> \o PruneStatuses(Tail(old), visited)
         ELSE PruneStatuses(Tail(old), visited)

\* ReadyCondition that reports success whatever doReconcile returned.
ReadyConditionAlwaysTrue(e) ==
    [status |-> "True", reason |-> "Success", message |-> PlainError("Success")]

\* The Ready condition Reconcile sets from doReconcile's error.
ReadyCondition(e) ==
    IF IsError(e)
    THEN [status |-> "False", reason |-> "Error", message |-> e]
    ELSE [status |-> "True", reason |-> "Success", message |-> PlainError("Success")]

\* A JSON merge patch of the status: client.MergeFrom(base) sends the fields of
\* modified that differ from base, and the repository replaces those in live.
MergePatch(live, base, modified) ==
    [conditions |-> IF modified.conditions # base.conditions
                    THEN modified.conditions ELSE live.conditions,
     handlerStatus |-> IF modified.handlerStatus # base.handlerStatus
                       THEN modified.handlerStatus ELSE live.handlerStatus]

\* RequeueResult without the RequeueAfter.
RequeueResultNone(obj) == [err |-> NoError, requeueAfter |-> 0, patched |-> TRUE]

\* The result Reconcile returns after a patch that succeeded; obj is sr as
\* the Patch call left it, the repository's answer decoded into it.
RequeueResult(obj) ==
    [err |-> NoError, requeueAfter |-> obj.spec.interval, patched |-> TRUE]

\* The instances the field index returns for an object of kind k.
IndexLookup(k) ==
    {i \in Instances : exists[i] /\ GroupVersionKind(stored[i].spec.forObject) = k}

\* The instances that were deleted from the repository.
Deleted == {i \in Instances : ~exists[i] /\ stored[i] # NoObject}

\* The kinds some instance refers to: objects of other kinds are never
\* fetched and never watched.
ReferencedKinds ==
    {GroupVersionKind(stored[i].spec.forObject) : i \in Instances} \ {Nil}

\* MapFunc that returns a request for one of the instances listed only.
MapFuncOneRequest(k, e) ==
    IF IsError(e) \/ IndexLookup(k) = {} THEN {}
    ELSE {CHOOSE i \in IndexLookup(k) : TRUE}

\* The requests the map function of the watch returns.
MapFunc(k, e) == IF IsError(e) THEN {} ELSE IndexLookup(k)

ResetLocals(i) ==
    /\ sr' = [sr EXCEPT ![i] = NoObject]
    /\ patchBase' = [patchBase EXCEPT ![i] = EmptyStatus]
    /\ idx' = [idx EXCEPT ![i] = 0]
    /\ errs' = [errs EXCEPT ![i] = <<>>]
    /\ existingStatuses' = [existingStatuses EXCEPT ![i] = {}]
    /\ err' = [err EXCEPT ![i] = NoError]
    /\ invoked' = [invoked EXCEPT ![i] = <<>>]

\* ---------------------------------------------------------------- Reconcile
\* Reconcile, lines 57-63: fetch the instance, snapshot it for the patch.
ReconcileGet(i) ==
    /\ pc[i] = "idle"
    /\ i \in queue
    /\ queue' = queue \ {i}
    /\ IF exists[i]
       THEN /\ sr' = [sr EXCEPT ![i] = stored[i]]
            /\ patchBase' = [patchBase EXCEPT ![i] = stored[i].status]
            /\ pc' = [pc EXCEPT ![i] = "lock"]
            /\ result' = [result EXCEPT ![i] = NoResult]
       ELSE /\ result' = [result EXCEPT ![i] =
                  [err |-> ErrInstanceNotFound, requeueAfter |-> 0, patched |-> FALSE]]
            /\ UNCHANGED <<sr, patchBase, pc>>
    /\ UNCHANGED <<repoVars, registryVars, loopVars, err, invoked, listErr, lastPass>>

\* MutexLock without the exclusion: the lock is taken whoever holds it.
MutexLockNoExclusion(i) ==
    /\ pc[i] = "lock"
    /\ mutex' = i
    /\ pc' = [pc EXCEPT ![i] = "check"]
    /\ UNCHANGED <<repoVars, watchedKinds, watchCalls, subscriptions, watchFailures,
                   queue, sr, patchBase, loopVars, err, invoked, result, listErr, lastPass>>

\* addWatchForKind, line 206: r.mutex.Lock()
MutexLock(i) ==
    /\ pc[i] = "lock"
    /\ mutex = NoHolder
    /\ mutex' = i
    /\ pc' = [pc EXCEPT ![i] = "check"]
    /\ UNCHANGED <<repoVars, watchedKinds, watchCalls, subscriptions, watchFailures,
                   queue, sr, patchBase, loopVars, err, invoked, result, listErr, lastPass>>

\* addWatchForKind, lines 209-211: the kind is watched already, return nil
\* (the deferred Unlock runs); otherwise go on to register.
AddWatchCheck(i) ==
    /\ pc[i] = "check"
    /\ IF IsWatched(watchedKinds, GroupVersionKind(sr[i].spec.forObject))
       THEN /\ mutex' = NoHolder
            /\ pc' = [pc EXCEPT ![i] = "fetch"]
       ELSE /\ pc' = [pc EXCEPT ![i] = "register"]
            /\ UNCHANGED mutex
    /\ UNCHANGED <<repoVars, watchedKinds, watchCalls, subscriptions, watchFailures,
                   queue, sr, patchBase, loopVars, err, invoked, result, listErr, lastPass>>

\* AddWatchRegister that marks the kind before it looks at Watch's error.
AddWatchRegisterPoisons(i) ==
    LET gvk == sr[i].spec.forObject.kind IN
    /\ pc[i] = "register"
    /\ watchCalls' = [watchCalls EXCEPT ![gvk] = @ + 1]
    /\ mutex' = NoHolder
    /\ watchedKinds' = [x \in (DOMAIN watchedKinds) \cup {gvk} |->
                          IF x = gvk THEN TRUE ELSE watchedKinds[x]]
    /\ \/ /\ subscriptions' = [subscriptions EXCEPT ![gvk] = @ + 1]
          /\ pc' = [pc EXCEPT ![i] = "fetch"]
          /\ UNCHANGED <<watchFailures, err>>
       \/ /\ watchFailures < MaxWatchFailures
          /\ watchFailures' = watchFailures + 1
          /\ err' = [err EXCEPT ![i] = ErrWatch]
          /\ pc' = [pc EXCEPT ![i] = "patch"]
          /\ UNCHANGED subscriptions
    /\ UNCHANGED <<repoVars, queue, sr, patchBase, loopVars, invoked, result, listErr, lastPass>>

\* AddWatchRegister whose caller goes on to the target fetch on a Watch error.
AddWatchRegisterContinues(i) ==
    LET gvk == sr[i].spec.forObject.kind IN
    /\ pc[i] = "register"
    /\ watchCalls' = [watchCalls EXCEPT ![gvk] = @ + 1]
    /\ mutex' = NoHolder
    /\ pc' = [pc EXCEPT ![i] = "fetch"]
    /\ \/ /\ subscriptions' = [subscriptions EXCEPT ![gvk] = @ + 1]
          /\ watchedKinds' = [x \in (DOMAIN watchedKinds) \cup {gvk} |->
                                IF x = gvk THEN TRUE ELSE watchedKinds[x]]
          /\ UNCHANGED watchFailures
       \/ /\ watchFailures < MaxWatchFailures
          /\ watchFailures' = watchFailures + 1
          /\ UNCHANGED <<subscriptions, watchedKinds>>
    /\ UNCHANGED <<repoVars, queue, sr, patchBase, loopVars, err, invoked, result, listErr, lastPass>>

\* addWatchForKind, lines 213-240: controller.Watch, and on success the entry.
AddWatchRegister(i) ==
    LET gvk == GroupVersionKind(sr[i].spec.forObject) IN
    /\ pc[i] = "register"
    /\ watchCalls' = [watchCalls EXCEPT ![gvk] = @ + 1]
    /\ mutex' = NoHolder
    /\ \/ /\ subscriptions' = [subscriptions EXCEPT ![gvk] = @ + 1]
          /\ watchedKinds' = MapPut(watchedKinds, gvk, TRUE)
          /\ pc' = [pc EXCEPT ![i] = "fetch"]
          /\ UNCHANGED <<watchFailures, err>>
       \/ /\ watchFailures < MaxWatchFailures
          /\ watchFailures' = watchFailures + 1
          /\ err' = [err EXCEPT ![i] = ErrWatch]
          /\ pc' = [pc EXCEPT ![i] = "patch"]
          /\ UNCHANGED <<subscriptions, watchedKinds>>
    /\ UNCHANGED <<repoVars, queue, sr, patchBase, loopVars, invoked, result, listErr, lastPass>>

\* FetchTarget that goes on to the handlers whatever the Get returned.
FetchTargetIgnoresAbsence(i) ==
    /\ pc[i] = "fetch"
    /\ pc' = [pc EXCEPT ![i] = "loop"]
    /\ idx' = [idx EXCEPT ![i] = 1]
    /\ UNCHANGED <<repoVars, registryVars, queue, sr, patchBase, errs, existingStatuses,
                   err, invoked, result, listErr, lastPass>>

\* doReconcile, lines 126-147: fetch the target object.
FetchTarget(i) ==
    /\ pc[i] = "fetch"
    /\ IF GroupVersionKind(sr[i].spec.forObject) \in targets
       THEN /\ pc' = [pc EXCEPT ![i] = "loop"]
            /\ idx' = [idx EXCEPT ![i] = 1]
            /\ UNCHANGED err
       ELSE /\ err' = [err EXCEPT ![i] = ErrTargetNotFound]
            /\ pc' = [pc EXCEPT ![i] = "patch"]
            /\ UNCHANGED idx
    /\ UNCHANGED <<repoVars, registryVars, queue, sr, patchBase, errs, existingStatuses,
                   invoked, result, listErr, lastPass>>

\* handlers.BuildPullRequestCommentReporter / BuildPullRequestApproveReporter:
\* the error of resolving the secrets the configuration names.
BuildReporter(spec) ==
    IF UnresolvedSpec.pullRequestComment \in {spec.pullRequestComment, spec.pullRequestApprove}
    THEN ErrBuild ELSE NoError

\* ReporterKind whose chain ends in the comment handler instead of the error.
ReporterKindDefaultsToComment(spec) ==
    IF spec.pullRequestApprove # Nil /\ spec.pullRequestComment = Nil
    THEN "approve" ELSE "comment"

\* The handler kind the if/else chain of lines 152-158 selects.
ReporterKind(spec) ==
    IF spec.pullRequestComment # Nil THEN "comment"
    ELSE IF spec.pullRequestApprove # Nil THEN "approve"
    ELSE Nil

\* reporter.Handle: nil, or the failure of the handler strategy.
HandleOutcomes(spec) ==
    {NoError,
     PlainError(IF ReporterKind(spec) = "comment" THEN "comment failed"
                                                   ELSE "approve failed")}

\* RecordOutcome that leaves the error of an existing record when Handle succeeds.
RecordOutcomeKeepsError(list, key, outcome) ==
    LET n == IF \E m \in 1..Len(list) : list[m].key = key
             THEN CHOOSE m \in 1..Len(list) : list[m].key = key ELSE 0
        text == IF IsError(outcome) THEN outcome.msgs[1] ELSE ""
    IN IF n = 0
       THEN Append(list, [key |-> key, error |-> text])
       ELSE IF IsError(outcome) THEN [list EXCEPT ![n].error = text] ELSE list

\* RecordOutcome that appends a record without looking for one with the key.
RecordOutcomeAppends(list, key, outcome) ==
    Append(list, [key |-> key, error |-> IF IsError(outcome) THEN outcome.msgs[1] ELSE ""])

\* doReconcile, lines 163-186: the status record of the handler, with the
\* outcome of Handle (NoError, or the failure) recorded in it.
RecordOutcome(list, key, outcome) ==
    LET n == FindStatus(list, key)
        text == IF IsError(outcome) THEN outcome.msgs[1] ELSE ""
    IN IF n = 0
       THEN Append(list, [key |-> key, error |-> text])
       ELSE [list EXCEPT ![n].error = text]

\* doReconcile, lines 150-187: one turn of the loop over spec.handlers.
HandleStep(i) ==
    LET spec == sr[i].spec.handlers[idx[i]]
        key == BuildKey(spec)
    IN
    /\ pc[i] = "loop"
    /\ idx[i] <= Len(sr[i].spec.handlers)
    /\ \/ /\ ReporterKind(spec) = Nil
          /\ err' = [err EXCEPT ![i] = ErrNoReporter]
          /\ pc' = [pc EXCEPT ![i] = "patch"]
          /\ UNCHANGED <<sr, loopVars, invoked>>
       \/ /\ ReporterKind(spec) # Nil
          /\ IsError(BuildReporter(spec))
          /\ err' = [err EXCEPT ![i] = BuildReporter(spec)]
          /\ pc' = [pc EXCEPT ![i] = "patch"]
          /\ UNCHANGED <<sr, loopVars, invoked>>
       \/ /\ ReporterKind(spec) # Nil
          /\ ~IsError(BuildReporter(spec))
          /\ \E outcome \in HandleOutcomes(spec) :
               /\ sr' = [sr EXCEPT ![i].status.handlerStatus =
                             RecordOutcome(@, key, outcome)]
               /\ errs' = [errs EXCEPT ![i] =
                             IF IsError(outcome) THEN MultiAppend(@, outcome.msgs[1]) ELSE @]
               /\ invoked' = [invoked EXCEPT ![i] =
                             Append(@, [spec |-> spec, outcome |-> outcome])]
          /\ existingStatuses' = [existingStatuses EXCEPT ![i] = @ \cup {key}]
          /\ idx' = [idx EXCEPT ![i] = @ + 1]
          /\ UNCHANGED <<pc, err>>
    /\ UNCHANGED <<repoVars, registryVars, queue, patchBase, result, listErr, lastPass>>

\* doReconcile, lines 189-197: prune the records not visited, return the errors.
PruneStep(i) ==
    /\ pc[i] = "loop"
    /\ idx[i] > Len(sr[i].spec.handlers)
    /\ sr' = [sr EXCEPT ![i].status.handlerStatus = PruneStatuses(@, existingStatuses[i])]
    /\ err' = [err EXCEPT ![i] = ErrorOrNil(errs[i])]
    /\ pc' = [pc EXCEPT ![i] = "patch"]
    /\ UNCHANGED <<repoVars, registryVars, queue, patchBase, loopVars, invoked,
                   result, listErr, lastPass>>

\* Reconcile, lines 65-91: set the Ready condition, patch the status, return.
PatchStep(i) ==
    LET modified == [sr[i].status EXCEPT !.conditions = ReadyCondition(err[i])] IN
    /\ pc[i] = "patch"
    /\ \/ /\ exists[i]
          /\ stored' = [stored EXCEPT ![i].status = MergePatch(@, patchBase[i], modified)]
          /\ result' = [result EXCEPT ![i] = RequeueResult(stored'[i])]
       \/ /\ result' = [result EXCEPT ![i] =
                           [err |-> ErrPatch, requeueAfter |-> 0, patched |-> FALSE]]
          /\ UNCHANGED stored
    /\ lastPass' = IF result'[i].patched
                   THEN [lastPass EXCEPT ![i] =
                           [ran |-> TRUE, spec |-> sr[i].spec, invoked |-> invoked[i],
                            err |-> err[i]]]
                   ELSE lastPass
    /\ pc' = [pc EXCEPT ![i] = "idle"]
    /\ ResetLocals(i)
    /\ UNCHANGED <<exists, targets, specUpdates, registryVars, queue, listErr>>

\* -------------------------------------------------------------- environment
\* The scheduler: the RequeueAfter timer of the last pass fires, or the pass
\* returned an error and is retried.
Requeue(i) ==
    /\ pc[i] = "idle"
    /\ i \notin queue
    /\ \/ result[i].requeueAfter > 0
       \/ IsError(result[i].err)
    /\ queue' = queue \cup {i}
    /\ UNCHANGED <<repoVars, registryVars, pc, sr, patchBase, loopVars, err, invoked,
                   result, listErr, lastPass>>

\* The handler list of an instance is edited; the controller's own watch enqueues it.
UpdateSpec(i) ==
    /\ exists[i]
    /\ specUpdates < MaxSpecUpdates
    /\ specUpdates' = specUpdates + 1
    /\ \E h \in HandlerLists(i) \ {stored[i].spec.handlers} :
          stored' = [stored EXCEPT ![i].spec.handlers = h]
    /\ queue' = queue \cup {i}
    /\ UNCHANGED <<exists, targets, registryVars, pc, sr, patchBase, loopVars, err,
                   invoked, result, listErr, lastPass>>

\* The instance is deleted; the controller's own watch enqueues it.
DeleteInstance(i) ==
    /\ exists[i]
    /\ Cardinality(Deleted) < MaxDeletes
    /\ exists' = [exists EXCEPT ![i] = FALSE]
    /\ queue' = queue \cup {i}
    /\ UNCHANGED <<stored, targets, specUpdates, registryVars, pc, sr, patchBase,
                   loopVars, err, invoked, result, listErr, lastPass>>

\* A target object of kind k is created or deleted. When the kind is watched,
\* the notification runs the map function (lines 216-234), whose List call
\* succeeds or fails, and the requests it returns are enqueued.
TargetEvent(k) ==
    /\ k \in ReferencedKinds
    /\ targets' = IF k \in targets THEN targets \ {k} ELSE targets \cup {k}
    /\ IF subscriptions[k] > 0
       THEN \E e \in {NoError, ErrList} :
               /\ queue' = queue \cup MapFunc(k, e)
               /\ listErr' = e
       ELSE UNCHANGED <<queue, listErr>>
    /\ UNCHANGED <<exists, stored, specUpdates, registryVars, pc, sr, patchBase,
                   loopVars, err, invoked, result, lastPass>>

Next ==
    \/ \E i \in Instances :
          \/ ReconcileGet(i)
          \/ MutexLock(i)
          \/ AddWatchCheck(i)
          \/ AddWatchRegister(i)
          \/ FetchTarget(i)
          \/ HandleStep(i)
          \/ PruneStep(i)
          \/ PatchStep(i)
          \/ Requeue(i)
          \/ UpdateSpec(i)
          \/ DeleteInstance(i)
    \/ \E k \in Kinds : TargetEvent(k)

Spec == Init /\ [][Next]_vars

\* ------------------------------------------------------------------ claims
\* The entry of kind k in the registry is present and true.
Active(k) == k \in DOMAIN watchedKinds /\ watchedKinds[k]

KindOf(i) == sr[i].spec.forObject.kind
KeysOf(list) == {list[n].key : n \in 1..Len(list)}
HandlerKeys(handlers) == {BuildKey(handlers[n]) : n \in 1..Len(handlers)}
UniqueKeys(list) == \A m, n \in 1..Len(list) : list[m].key = list[n].key => m = n

\* Worker i is about to patch after a loop over spec.handlers that ran to its end.
Completed(i) == pc[i] = "patch" /\ idx[i] > Len(sr[i].spec.handlers)

\* The step of worker i that ends its pass with the status patch.
PassEnds(i) == pc[i] = "patch" /\ pc'[i] = "idle"

\* C1: however the workers that call addWatchForKind for one kind interleave,
\* controller.Watch registers a watch for that kind at most once, and exactly
\* once when a worker has come back from addWatchForKind without an error.
C1_OneWatchPerKind ==
    \A k \in Kinds :
       /\ subscriptions[k] <= 1
       /\ \A i \in Instances :
             (pc[i] \in {"fetch", "loop"} /\ KindOf(i) = k) => subscriptions[k] = 1

\* Two workers are both back from addWatchForKind for the same kind.
C1_Witness ==
    \E i, j \in Instances :
       /\ i # j
       /\ pc[i] = "fetch" /\ pc[j] = "fetch"
       /\ KindOf(i) = KindOf(j)
       /\ watchCalls[KindOf(i)] = 1

\* C2 as claimed: after every pass, whatever its outcome, the persisted
\* handlerStatus has exactly one record for each key of spec.handlers and none
\* for another key.
C2_Original ==
    [][\A i \in Instances :
          PassEnds(i) =>
             /\ KeysOf(stored'[i].status.handlerStatus) = HandlerKeys(stored'[i].spec.handlers)
             /\ UniqueKeys(stored'[i].status.handlerStatus)]_vars

\* C2 amended: after every pass whose loop over spec.handlers ran to its end
\* and whose status patch succeeded, the persisted handlerStatus has exactly
\* one record for each key of the spec.handlers the pass read and none for
\* another key.
C2_PrunedAfterCompletedPass ==
    [][\A i \in Instances :
          (PassEnds(i) /\ Completed(i) /\ result'[i].patched) =>
             /\ KeysOf(stored'[i].status.handlerStatus) = HandlerKeys(sr[i].spec.handlers)
             /\ UniqueKeys(stored'[i].status.handlerStatus)]_vars

\* A completed pass pruned the three records of the handlers configured before.
C2_Witness ==
    \E i \in Instances :
       /\ Completed(i)
       /\ Len(patchBase[i].handlerStatus) = 3
       /\ sr[i].spec.handlers = <<BothSpec>>
       /\ Len(sr[i].status.handlerStatus) = 1

\* The failure text a Handle call's outcome leaves in its record.
OutcomeText(o) == IF IsError(o) THEN o.msgs[1] ELSE ""

\* C3: in a pass that fetched the target and resolved every handler, with
\* pairwise distinct keys: every configured handler is invoked, in order; the
\* record of each one holds its failure message if it failed and an empty
\* error if not; the patch persists these records; and Ready is False exactly
\* when some handler failed.
C3_HandlerIsolation ==
    [][\A i \in Instances :
          LET hs == sr[i].spec.handlers
              recs == sr[i].status.handlerStatus
              failed == {n \in 1..Len(invoked[i]) : IsError(invoked[i][n].outcome)}
          IN (PassEnds(i) /\ Completed(i) /\ Cardinality(HandlerKeys(hs)) = Len(hs)) =>
                /\ Len(invoked[i]) = Len(hs)
                /\ \A n \in 1..Len(hs) :
                      /\ invoked[i][n].spec = hs[n]
                      /\ \E m \in 1..Len(recs) :
                            /\ recs[m].key = BuildKey(hs[n])
                            /\ recs[m].error = OutcomeText(invoked[i][n].outcome)
                /\ Len(recs) = Len(hs)
                /\ (failed # {}) <=> IsError(err[i])
                /\ result'[i].patched =>
                      /\ stored'[i].status.handlerStatus = recs
                      /\ (stored'[i].status.conditions.status = "False") <=> (failed # {})
                      /\ (stored'[i].status.conditions.status = "True") <=> (failed = {})]_vars

\* Handler 2 of 3 failed, handlers 1 and 3 succeeded, and the pass was persisted.
C3_Witness ==
    \E i \in Instances :
       /\ pc[i] = "idle"
       /\ result[i].patched
       /\ stored[i].spec.handlers = <<CommentSpec, ApproveSpec, MergedSpec>>
       /\ stored[i].status.conditions.status = "False"
       /\ stored[i].status.handlerStatus =
             << [key |-> BuildKey(CommentSpec), error |-> ""],
                [key |-> BuildKey(ApproveSpec), error |-> "approve failed"],
                [key |-> BuildKey(MergedSpec), error |-> ""] >>

\* C4 as claimed: a pass for an instance that is gone returns no error and no
\* requeue, and registers no watch, invokes no handler and patches nothing.
C4_Original ==
    [][\A i \in Instances :
          (pc[i] = "idle" /\ i \in queue /\ i \notin queue' /\ ~exists[i]) =>
             /\ ~IsError(result'[i].err)
             /\ result'[i].requeueAfter = 0
             /\ pc'[i] = "idle"
             /\ invoked'[i] = <<>>
             /\ UNCHANGED <<watchedKinds, watchCalls, subscriptions, stored>>]_vars

\* C5: when the fetch of the target object finds it absent, doReconcile
\* returns the not-found error at once; the pass invokes no handler, leaves
\* handlerStatus as the prior pass left it, and persists Ready=False with the
\* not-found error when its patch succeeds.
C5_AbsentTarget ==
    [][\A i \in Instances :
          /\ (pc[i] = "fetch" /\ pc'[i] # "fetch" /\ KindOf(i) \notin targets) =>
                (pc'[i] = "patch" /\ err'[i] = ErrTargetNotFound)
          /\ (PassEnds(i) /\ err[i] = ErrTargetNotFound) =>
                /\ invoked[i] = <<>>
                /\ sr[i].status.handlerStatus = patchBase[i].handlerStatus
                /\ stored'[i].status.handlerStatus = stored[i].status.handlerStatus
                /\ result'[i].patched =>
                      stored'[i].status.conditions =
                         [status |-> "False", reason |-> "Error",
                          message |-> ErrTargetNotFound]]_vars

\* A pass that found the target gone was persisted over the records of an
\* earlier pass.
C5_Witness ==
    \E i \in Instances :
       /\ pc[i] = "idle"
       /\ result[i].patched
       /\ stored[i].status.conditions.message = ErrTargetNotFound
       /\ Len(stored[i].status.handlerStatus) = 3

\* The number of handler-kind fields a specification sets.
KindsSet(spec) ==
    Cardinality({f \in {"pullRequestComment", "pullRequestApprove"} : spec[f] # Nil})

\* C6 as claimed: a turn of the loop over a specification that sets no
\* handler kind, or more than one, aborts the pass with an error and invokes
\* no handler.
C6_Original ==
    [][\A i \in Instances :
          (/\ pc[i] = "loop"
           /\ idx[i] <= Len(sr[i].spec.handlers)
           /\ (pc'[i] # "loop" \/ idx'[i] # idx[i])
           /\ KindsSet(sr[i].spec.handlers[idx[i]]) # 1) =>
             /\ pc'[i] = "patch"
             /\ IsError(err'[i])
             /\ invoked'[i] = invoked[i]]_vars

\* C7: when controller.Watch fails, addWatchForKind returns the error to the
\* pass, which persists Ready=False with it; the entry of the kind is not
\* marked, the mutex is released, and a call that finds the kind unmarked
\* goes on to call controller.Watch again.
C7_WatchFailure ==
    [][\A i \in Instances :
          /\ (pc[i] = "register" /\ pc'[i] = "patch") =>
                /\ err'[i] = ErrWatch
                /\ ~Active(KindOf(i))'
                /\ watchedKinds' = watchedKinds
                /\ mutex' = NoHolder
          /\ (PassEnds(i) /\ err[i] = ErrWatch /\ result'[i].patched) =>
                stored'[i].status.conditions =
                   [status |-> "False", reason |-> "Error", message |-> ErrWatch]
          /\ (pc[i] = "check" /\ pc'[i] # "check" /\ ~Active(KindOf(i))) =>
                pc'[i] = "register"
          /\ (pc[i] = "register" /\ pc'[i] # "register") =>
                watchCalls'[KindOf(i)] = watchCalls[KindOf(i)] + 1]_vars

\* controller.Watch failed for a kind, and a later call registered its watch.
C7_Witness ==
    \E k \in Kinds :
       /\ watchFailures = 1
       /\ watchCalls[k] = 2
       /\ subscriptions[k] = 1
       /\ Active(k)

\* C8: a pass whose status patch succeeds returns no error and a requeue
\* after spec.interval, whatever doReconcile returned; a pass whose patch
\* fails returns an error and no requeue.
C8_Requeue ==
    [][\A i \in Instances :
          PassEnds(i) =>
             IF result'[i].patched
             THEN /\ result'[i].err = NoError
                  /\ result'[i].requeueAfter = stored'[i].spec.interval
                  /\ result'[i].requeueAfter > 0
             ELSE /\ IsError(result'[i].err)
                  /\ result'[i].requeueAfter = 0
                  /\ stored' = stored]_vars

\* A pass that persisted Ready=False returned a requeue after the interval.
C8_Witness ==
    \E i \in Instances :
       /\ pc[i] = "idle"
       /\ result[i].patched
       /\ result[i].requeueAfter = ShortInterval
       /\ stored[i].status.conditions.status = "False"

\* C9: an active entry of the registry stays active; a call that finds the
\* entry of its kind active returns nil without calling controller.Watch and
\* without changing the registry; only a call that found it inactive goes on
\* to register.
C9_WriteOnce ==
    [][/\ \A k \in Kinds : Active(k) => Active(k)'
       /\ \A i \in Instances :
             /\ (pc[i] = "check" /\ pc'[i] # "check" /\ Active(KindOf(i))) =>
                   /\ pc'[i] = "fetch"
                   /\ err'[i] = NoError
                   /\ UNCHANGED <<watchedKinds, watchCalls, subscriptions>>
             /\ (pc[i] = "register") => ~Active(KindOf(i))]_vars

\* A second pass of an instance is back from addWatchForKind, and the one
\* controller.Watch call of its kind was made before.
C9_Witness ==
    \E i \in Instances :
       /\ pc[i] = "fetch"
       /\ stored[i].status.conditions.status = "True"
       /\ watchCalls[KindOf(i)] = 1
       /\ subscriptions[KindOf(i)] = 1

\* C10 as claimed: no failure is swallowed. The error of the map function's
\* List call is returned to the scheduler or written to a status, and a pass
\* that ended returned an error or left a Ready condition.
C10_Original ==
    /\ IsError(listErr) =>
          \E i \in Instances :
             \/ result[i].err = listErr
             \/ stored[i].status.conditions.message = listErr
    /\ \A i \in Instances :
          (pc[i] = "idle" /\ result[i] # NoResult) =>
             \/ IsError(result[i].err)
             \/ stored[i].status.conditions.status \in {"True", "False"}

\* The record with key k in list, or Nil when there is none.
RecordOf(list, k) ==
    IF \E n \in 1..Len(list) : list[n].key = k
    THEN list[CHOOSE n \in 1..Len(list) : list[n].key = k]
    ELSE [key |-> Nil, error |-> ""]

\* Worker i is about to patch after its loop stopped at the handler at idx[i].
AbortedInLoop(i) ==
    pc[i] = "patch" /\ idx[i] >= 1 /\ idx[i] <= Len(sr[i].spec.handlers)

\* C11: when the handler at position p sets no handler kind or fails to
\* resolve, doReconcile returns that error at once: the handlers invoked are
\* those before p, the record of a handler at p or later (whose key no
\* earlier handler shares) is as the pass found it, and a patch that succeeds
\* persists Ready=False with the error and these records.
C11_ConfigurationError ==
    [][\A i \in Instances :
          LET hs == sr[i].spec.handlers
              p == idx[i]
              before == {BuildKey(hs[n]) : n \in 1..(p - 1)}
          IN /\ (pc[i] = "loop" /\ p <= Len(hs) /\ <<pc[i], idx[i]>> # <<pc'[i], idx'[i]>>
                    /\ (KindsSet(hs[p]) = 0 \/ IsError(BuildReporter(hs[p])))) =>
                   /\ pc'[i] = "patch"
                   /\ \/ KindsSet(hs[p]) = 0 /\ err'[i] = ErrNoReporter
                      \/ KindsSet(hs[p]) > 0 /\ err'[i] = ErrBuild
                   /\ invoked'[i] = invoked[i]
                   /\ sr'[i] = sr[i]
             /\ (PassEnds(i) /\ AbortedInLoop(i)) =>
                   /\ err[i] \in {ErrNoReporter, ErrBuild}
                   /\ Len(invoked[i]) = p - 1
                   /\ \A n \in p..Len(hs) :
                         BuildKey(hs[n]) \notin before =>
                            RecordOf(sr[i].status.handlerStatus, BuildKey(hs[n]))
                               = RecordOf(patchBase[i].handlerStatus, BuildKey(hs[n]))
                   /\ result'[i].patched =>
                         /\ stored'[i].status.conditions =
                               [status |-> "False", reason |-> "Error", message |-> err[i]]
                         /\ stored'[i].status.handlerStatus = sr[i].status.handlerStatus]_vars

\* A pass stopped at its second handler, whose secret does not resolve, and
\* was persisted with the record of the first.
C11_Witness ==
    \E i \in Instances :
       /\ pc[i] = "idle"
       /\ result[i].patched
       /\ stored[i].status.conditions.message = ErrBuild
       /\ RecordOf(stored[i].status.handlerStatus, BuildKey(ApproveSpec)).key # Nil
       /\ RecordOf(stored[i].status.handlerStatus, BuildKey(UnresolvedSpec)).key = Nil

\* C12: handlerStatus never holds two records with one key, in the
\* repository or in a pass's copy, whatever passes ran and however they ended.
C12_UniqueKeys ==
    \A i \in Instances :
       /\ UniqueKeys(stored[i].status.handlerStatus)
       /\ UniqueKeys(sr[i].status.handlerStatus)

\* An aborted pass was persisted over the three records of an earlier pass.
C12_Witness ==
    \E i \in Instances :
       /\ pc[i] = "idle"
       /\ stored[i].status.conditions.message = ErrNoReporter
       /\ Len(stored[i].status.handlerStatus) = 3

\* The positions of the Handle calls of the pass for key k.
CallsFor(calls, k) == {n \in 1..Len(calls) : BuildKey(calls[n].spec) = k}

\* The outcome of the last Handle call of the pass for key k.
LastOutcome(calls, k) ==
    calls[CHOOSE n \in CallsFor(calls, k) : \A m \in CallsFor(calls, k) : m <= n].outcome

\* C13: over a pass that is persisted, a record is dropped only if no handler
\* of the spec the pass read has its key; a record that stays keeps its error
\* unless a handler with its key was executed, and then holds the outcome of
\* the last such execution: empty on success, the failure text otherwise.
C13_RecordsPersist ==
    [][\A i \in Instances :
          (PassEnds(i) /\ result'[i].patched) =>
             \A n \in 1..Len(stored[i].status.handlerStatus) :
                LET old == stored[i].status.handlerStatus[n]
                    new == RecordOf(stored'[i].status.handlerStatus, old.key)
                IN /\ new.key = Nil => old.key \notin HandlerKeys(sr[i].spec.handlers)
                   /\ new.key # Nil =>
                         new.error = IF CallsFor(invoked[i], old.key) = {} THEN old.error
                                     ELSE OutcomeText(LastOutcome(invoked[i], old.key))]_vars

\* A record kept its failure through a persisted pass that found the target
\* gone and executed no handler.
C13_Witness ==
    \E i \in Instances :
       /\ pc[i] = "idle"
       /\ result[i].patched
       /\ stored[i].status.conditions.message = ErrTargetNotFound
       /\ \E n \in 1..Len(stored[i].status.handlerStatus) :
             stored[i].status.handlerStatus[n].error = "approve failed"

\* C14: a notification for an object of a watched kind (the object is created
\* or deleted) enqueues the instances the index lists for it, one request
\* each, and no other instance; a kind that is not watched enqueues nothing.
C14_MapFunction ==
    [][\A k \in Kinds :
          ((k \in targets) # (k \in targets')) =>
             IF subscriptions[k] > 0
             THEN queue' = queue \cup
                     (IF IsError(listErr') THEN {}
                      ELSE {i \in Instances :
                              exists[i] /\ stored[i].spec.forObject.kind = k})
             ELSE queue' = queue]_vars

\* Two instances that found their common target gone are both enqueued after
\* it was created.
C14_Witness ==
    /\ "K1" \in targets
    /\ subscriptions["K1"] = 1
    /\ listErr = NoError
    /\ \A i \in {"i2", "i3"} :
          /\ i \in queue
          /\ pc[i] = "idle"
          /\ stored[i].spec.forObject.kind = "K1"
          /\ stored[i].status.conditions.message = ErrTargetNotFound

\* Worker i's pass read the spec, met the outcomes and returned the error of
\* the pass that wrote the status it started from.
SameAsLastPass(i) ==
    /\ lastPass[i].ran
    /\ lastPass[i].spec = sr[i].spec
    /\ lastPass[i].invoked = invoked[i]
    /\ lastPass[i].err = err[i]

\* C15: a pass that starts from the status an earlier pass of the same
\* instance persisted and has the same spec, the same target and watch outcome and the same handler outcomes
\* persists a status identical to the one it found (condition and
\* handlerStatus, order included), and its addWatchForKind call leaves the
\* registry as it found it.
C15_Idempotent ==
    [][\A i \in Instances :
          /\ (PassEnds(i) /\ result'[i].patched /\ SameAsLastPass(i)) =>
                stored'[i].status = stored[i].status
          /\ (pc[i] \in {"check", "register"} /\ pc'[i] # pc[i]
                /\ lastPass[i].ran
                /\ lastPass[i].spec.forObject = sr[i].spec.forObject
                /\ (lastPass[i].err = ErrWatch <=> err'[i] = ErrWatch)) =>
                watchedKinds' = watchedKinds]_vars

\* A second pass over three handlers met the outcomes of the first, one of
\* them a failure, and is about to patch.
C15_Witness ==
    \E i \in Instances :
       /\ pc[i] = "patch"
       /\ exists[i]
       /\ SameAsLastPass(i)
       /\ Len(invoked[i]) = 3
       /\ \E n \in 1..3 : IsError(invoked[i][n].outcome)

\* C16: within a pass the watch of the target's kind is ensured before the
\* target is fetched, the target is fetched and found before the first
\* handler, and the handlers are invoked one at a time in the order of
\* spec.handlers.
C16_Ordering ==
    [][\A i \in Instances :
          LET hs == sr[i].spec.handlers
              m == Len(invoked'[i])
          IN /\ (pc'[i] = "fetch" /\ pc[i] # "fetch") =>
                   /\ pc[i] \in {"check", "register"}
                   /\ KindOf(i) \in DOMAIN watchedKinds' /\ watchedKinds'[KindOf(i)]
                   /\ invoked[i] = <<>>
             /\ (pc'[i] = "loop" /\ pc[i] # "loop") =>
                   /\ pc[i] = "fetch"
                   /\ KindOf(i) \in targets
                   /\ invoked[i] = <<>>
             /\ (invoked'[i] # invoked[i] /\ invoked'[i] # <<>>) =>
                   /\ pc[i] = "loop"
                   /\ m = Len(invoked[i]) + 1
                   /\ SubSeq(invoked'[i], 1, m - 1) = invoked[i]
                   /\ invoked'[i][m].spec = hs[m]]_vars

\* Two of three handlers were invoked, the third is next.
C16_Witness ==
    \E i \in Instances :
       /\ pc[i] = "loop"
       /\ Len(sr[i].spec.handlers) = 3
       /\ Len(invoked[i]) = 2
       /\ idx[i] = 3

\* C17: a pass that fetched the instance ends with the one status patch and
\* nothing else writes the status; the patch carries the Ready condition and
\* handlerStatus together, Ready being True/Success when doReconcile returned
\* no error and False/Error with the error otherwise.
C17_OnePatch ==
    [][\A i \in Instances :
          /\ (pc[i] # "idle" /\ pc'[i] = "idle") => pc[i] = "patch"
          /\ stored'[i].status # stored[i].status => PassEnds(i) /\ result'[i].patched
          /\ (PassEnds(i) /\ result'[i].patched) =>
                stored'[i].status =
                   [conditions |->
                       IF err[i] = NoError
                       THEN [status |-> "True", reason |-> "Success",
                             message |-> PlainError("Success")]
                       ELSE [status |-> "False", reason |-> "Error", message |-> err[i]],
                    handlerStatus |-> sr[i].status.handlerStatus]]_vars

\* A pass over three handlers that all succeeded was persisted as Ready=True.
C17_Witness ==
    \E i \in Instances :
       /\ pc[i] = "idle"
       /\ result[i].patched
       /\ stored[i].status.conditions.reason = "Success"
       /\ Len(stored[i].status.handlerStatus) = 3
       /\ \A n \in 1..3 : stored[i].status.handlerStatus[n].error = ""

\* C18: a pass that persists Ready=True persists with it a handlerStatus
\* whose keys are those of the handlers of the spec the pass read and whose
\* records all have an empty error.
C18_ReadyTrue ==
    [][\A i \in Instances :
          (PassEnds(i) /\ result'[i].patched
             /\ stored'[i].status.conditions.status = "True") =>
             /\ KeysOf(stored'[i].status.handlerStatus) = HandlerKeys(sr[i].spec.handlers)
             /\ \A n \in 1..Len(stored'[i].status.handlerStatus) :
                   stored'[i].status.handlerStatus[n].error = ""]_vars

\* A pass about to persist Ready=True started from three records, one of
\* them with a failure, and keeps the one its spec configures.
C18_Witness ==
    \E i \in Instances :
       /\ Completed(i)
       /\ err[i] = NoError
       /\ exists[i]
       /\ \E n \in 1..Len(patchBase[i].handlerStatus) :
             patchBase[i].handlerStatus[n].error # ""
       /\ Len(patchBase[i].handlerStatus) = 3
       /\ Len(sr[i].status.handlerStatus) = 1

\* C19 as claimed: a pass that ends on an absent target has the kind active,
\* and the creation of the target of an active kind enqueues every instance
\* that refers to it.
C19_Original ==
    [][/\ \A i \in Instances :
             (PassEnds(i) /\ err[i] = ErrTargetNotFound) => Active(KindOf(i))
       /\ \A k \in Kinds :
             (k \notin targets /\ k \in targets' /\ Active(k)) =>
                \A i \in Instances :
                   (exists[i] /\ stored[i].spec.forObject.kind = k) => i \in queue']_vars

\* C20: after a loop that ran to its end there is one record per key, shared
\* by the handlers that derive it and holding the outcome of the last of
\* them; doReconcile returns an error exactly when some Handle call failed,
\* and a patch that succeeds persists these records with Ready=False in
\* that case.
C20_SharedRecord ==
    [][\A i \in Instances :
          (PassEnds(i) /\ Completed(i)) =>
             LET list == sr[i].status.handlerStatus IN
             /\ \A k \in HandlerKeys(sr[i].spec.handlers) :
                   /\ Cardinality({n \in 1..Len(list) : list[n].key = k}) = 1
                   /\ RecordOf(list, k).error = OutcomeText(LastOutcome(invoked[i], k))
             /\ IsError(err[i]) <=>
                   \E n \in 1..Len(invoked[i]) : IsError(invoked[i][n].outcome)
             /\ result'[i].patched =>
                   /\ stored'[i].status.handlerStatus = list
                   /\ stored'[i].status.conditions.status = "False" <=> IsError(err[i])]_vars

\* Two handlers with one key, the first failed and the second succeeded:
\* Ready=False is persisted with the one record, whose error is empty.
C20_Witness ==
    \E i \in Instances :
       /\ pc[i] = "idle"
       /\ result[i].patched
       /\ stored[i].spec.handlers = <<CommentSpec, CommentSpec>>
       /\ stored[i].status.conditions.status = "False"
       /\ stored[i].status.conditions.message.kind = "multierror"
       /\ stored[i].status.handlerStatus = <<[key |-> BuildKey(CommentSpec), error |-> ""]>>

====
